---- MODULE Spec2Model ----
(***************************************************************************)
(* Model of build.py, the driver that arranges one day of archived GTFS-RT *)
(* messages into per-feed chunks, parses each chunk with gtfs_tripify,     *)
(* merges the chunk logbooks and cuts cancellations.                       *)
(*                                                                         *)
(* Strings are sequences of one-character strings, so that slicing,        *)
(* find() and sorted() are modelled by what they do.  The gtfs_tripify     *)
(* calls (logify, merge_logbooks, cut_cancellations) are library code that *)
(* is not part of build.py; their results are kept as uninterpreted terms  *)
(* that record the call and its argument.                                  *)
(***************************************************************************)
EXTENDS Integers, Sequences, FiniteSets, TLC

(* ----------------------------- bounds ---------------------------------- *)

\* Largest number of archived messages of the 7 feed in the directory.
MaxMsgs7 == 9

\* Largest number of archived messages of the ace feed in the directory.
MaxMsgsAce == 5

\* Largest number of parse errors one logify call reports.
MaxErrors == 1

(* ------------------------ Python primitives ---------------------------- *)

Min(a, b) == IF a < b THEN a ELSE b

Max(a, b) == IF a > b THEN a ELSE b

\* The characters that occur in the paths, in ASCII order.
AsciiOrder ==
    << ".", "/", "0", "1", "2", "3", "4", "5", "6", "7", "8", "9", "_",
       "a", "c", "d", "e", "f", "g", "s", "t" >>

Ord(c) == CHOOSE i \in 1..Len(AsciiOrder) : AsciiOrder[i] = c

Digit(i) == AsciiOrder[i + 3]

\* Python's str < str: lexicographic on code points, a proper prefix first.
RECURSIVE StrLess(_, _)
StrLess(a, b) ==
    IF b = << >> THEN FALSE
    ELSE IF a = << >> THEN TRUE
    ELSE IF Head(a) = Head(b) THEN StrLess(Tail(a), Tail(b))
    ELSE Ord(Head(a)) < Ord(Head(b))

\* sorted(...) of a collection of distinct strings.
RECURSIVE sorted(_)
sorted(S) ==
    IF S = {} THEN << >>
    ELSE LET m == CHOOSE x \in S : \A y \in S \ {x} : StrLess(x, y)
         IN  << m >> \o sorted(S \ {m})

\* An index of a slice, clamped as Python clamps it (negative = from the end).
SliceIdx(i, n) == IF i < 0 THEN Max(0, n + i) ELSE Min(i, n)

\* s[a:b] with 0-based, end-exclusive bounds.
Slice(s, a, b) == SubSeq(s, SliceIdx(a, Len(s)) + 1, SliceIdx(b, Len(s)))

\* s[a:]
SliceFrom(s, a) == Slice(s, a, Len(s))

\* str.find(c): the 0-based index of the first occurrence, -1 when absent.
Find(s, c) ==
    IF \E i \in 1..Len(s) : s[i] = c
    THEN (CHOOSE i \in 1..Len(s) : s[i] = c /\ \A j \in 1..(i - 1) : s[j] # c) - 1
    ELSE -1

\* list(range(start, stop, step)) for step > 0; range raises on step = 0.
PyRange(start, stop, step) ==
    LET cnt == IF stop > start THEN ((stop - start) + step - 1) \div step ELSE 0
    IN  [i \in 1..cnt |-> start + (i - 1) * step]

\* itertools.chain(*lists) as a list
RECURSIVE chain(_)
chain(lists) ==
    IF lists = << >> THEN << >> ELSE Head(lists) \o chain(Tail(lists))

(* --------------------------- the archive ------------------------------- *)

Feed7 == << "7" >>

FeedAce == << "a", "c", "e" >>

\* gtfs_<feed>_<date>_<time>.gtfs, the i-th message of a feed (date and time
\* fields shortened to one digit each).
FileName(feed, i) ==
    << "g", "t", "f", "s", "_" >> \o feed \o << "_" >>
        \o << Digit(i \div 10) >> \o << "_" >> \o << Digit(i % 10) >>
        \o << ".", "g", "t", "f", "s" >>

\* The directory listings considered: n7 messages of the 7 feed and nAce of
\* the ace feed.
Listing(n7, nAce) ==
    { FileName(Feed7, i) : i \in 0..(n7 - 1) }
        \cup { FileName(FeedAce, i) : i \in 0..(nAce - 1) }

\* './data/20190601/'
DataDir ==
    << ".", "/", "d", "a", "t", "a", "/", "2", "0", "1", "9", "0", "6", "0", "1", "/" >>

(* --------------------------- splitname --------------------------------- *)

\* Returns (origname, trainlines); the date and the remainder it also slices
\* off are not returned.
splitname(name) ==
    LET name1 == SliceFrom(name, 5)
        first_splitter_idx == Find(name1, "_")
        trainlines == Slice(name1, 0, first_splitter_idx)
    IN  << name, trainlines >>

(* ----------------------------- state ----------------------------------- *)

VARIABLES
    pc,                   \* position in the script, or the exception that ended it
    listing,              \* os.listdir(f'{OUTPUT_DIR}/20190601/')
    messageinfo,          \* list of (filename, feed_identifier)
    unique_feeds,         \* set of feed identifiers
    feeds_todo,           \* feeds the grouping loop has not visited yet
    feed_keys,            \* keys of feed_message_map in insertion order
    feed_message_map,     \* feed -> [kind, val]: flat list, then list of chunks
    chunk_pos,            \* how many keys the chunking loop has visited
    chunk_i,              \* how many chunks of the 7 feed have been parsed
    sublogs,
    sublogs_timestamps,
    sublogs_parse_errors,
    merge_arg,            \* the argument merge_logbooks was called with
    logbooks,
    parse_errors

vars ==
    << pc, listing, messageinfo, unique_feeds, feeds_todo, feed_keys,
       feed_message_map, chunk_pos, chunk_i, sublogs, sublogs_timestamps,
       sublogs_parse_errors, merge_arg, logbooks, parse_errors >>

NoMap == [f \in {} |-> 0]

Init ==
    /\ pc = "list"
    /\ \E n7 \in 0..MaxMsgs7, nAce \in 0..MaxMsgsAce : listing = Listing(n7, nAce)
    /\ messageinfo = << >>
    /\ unique_feeds = {}
    /\ feeds_todo = {}
    /\ feed_keys = << >>
    /\ feed_message_map = NoMap
    /\ chunk_pos = 0
    /\ chunk_i = 0
    /\ sublogs = << >>
    /\ sublogs_timestamps = << >>
    /\ sublogs_parse_errors = << >>
    /\ merge_arg = << >>
    /\ logbooks = NoMap
    /\ parse_errors = NoMap

(* ---------------------------- the script ------------------------------- *)

\* messageinfo = list(map(splitname, sorted(os.listdir(...))))
\* unique_feeds = set(...); feed_message_map = dict()
ListMessages ==
    /\ pc = "list"
    /\ LET names == sorted(listing)
           info == [i \in 1..Len(names) |-> splitname(names[i])]
       IN  /\ messageinfo' = info
           /\ unique_feeds' = { info[i][2] : i \in 1..Len(info) }
           /\ feeds_todo' = { info[i][2] : i \in 1..Len(info) }
    /\ pc' = "group"
    /\ UNCHANGED << listing, feed_keys, feed_message_map, chunk_pos, chunk_i,
                    sublogs, sublogs_timestamps, sublogs_parse_errors,
                    merge_arg, logbooks, parse_errors >>

\* The sorted list of paths of one feed.
FeedList(feed) ==
    sorted({ DataDir \o messageinfo[i][1] :
                i \in { j \in 1..Len(messageinfo) : messageinfo[j][2] = feed } })

\* One iteration of `for feed in unique_feeds` (a set: any order).
GroupFeed ==
    /\ pc = "group"
    /\ feeds_todo # {}
    /\ \E feed \in feeds_todo :
          /\ feed_message_map' =
                [f \in DOMAIN feed_message_map \cup {feed} |->
                    IF f = feed THEN [kind |-> "flat", val |-> FeedList(feed)]
                    ELSE feed_message_map[f]]
          /\ feed_keys' = Append(feed_keys, feed)
          /\ feeds_todo' = feeds_todo \ {feed}
    /\ UNCHANGED << pc, listing, messageinfo, unique_feeds, chunk_pos, chunk_i,
                    sublogs, sublogs_timestamps, sublogs_parse_errors,
                    merge_arg, logbooks, parse_errors >>

GroupDone ==
    /\ pc = "group"
    /\ feeds_todo = {}
    /\ pc' = "chunk"
    /\ UNCHANGED << listing, messageinfo, unique_feeds, feeds_todo, feed_keys,
                    feed_message_map, chunk_pos, chunk_i, sublogs,
                    sublogs_timestamps, sublogs_parse_errors, merge_arg,
                    logbooks, parse_errors >>

n_segments == 4

\* chunk_offsets without the assignment to chunk_offsets[-1]: the last chunk
\* stops at the last multiple of the step size.
ChunkOffsets_NoTailFix(feedlist) ==
    LET r == PyRange(0, Len(feedlist), Len(feedlist) \div 4)
    IN  [i \in 1..(Len(r) - 1) |-> << r[i], r[i + 1] >>]

\* chunk_offsets of a feed list whose step size is not zero.
ChunkOffsets(feedlist) ==
    LET n_messages == Len(feedlist)
        step_size == Len(feedlist) \div n_segments
        r == PyRange(0, n_messages, step_size)
        starts == Slice(r, 0, -1)
        stops == SliceFrom(r, 1)
        zipped == [i \in 1..Min(Len(starts), Len(stops)) |-> << starts[i], stops[i] >>]
    IN  [i \in 1..Len(zipped) |->
            IF i = Len(zipped) THEN << zipped[i][1], Len(feedlist) >> ELSE zipped[i]]

Chunks(feedlist) ==
    LET chunk_offsets == ChunkOffsets(feedlist)
    IN  [i \in 1..Len(chunk_offsets) |->
            Slice(feedlist, chunk_offsets[i][1], chunk_offsets[i][2])]

\* One iteration of `for feed_identifier in feed_message_map` (insertion order).
ChunkFeed ==
    /\ pc = "chunk"
    /\ chunk_pos < Len(feed_keys)
    /\ LET feed_identifier == feed_keys[chunk_pos + 1]
           feedlist == feed_message_map[feed_identifier].val
       IN  IF Len(feedlist) \div n_segments = 0
           THEN \* range() arg 3 must not be zero
                /\ pc' = "ValueError"
                /\ UNCHANGED feed_message_map
           ELSE /\ pc' = pc
                /\ feed_message_map' =
                      [feed_message_map EXCEPT
                          ![feed_identifier] = [kind |-> "chunks", val |-> Chunks(feedlist)]]
    /\ chunk_pos' = chunk_pos + 1
    /\ UNCHANGED << listing, messageinfo, unique_feeds, feeds_todo, feed_keys,
                    chunk_i, sublogs, sublogs_timestamps, sublogs_parse_errors,
                    merge_arg, logbooks, parse_errors >>

\* The chunking loop is over; `for feed_identifier in ['7']` looks the feed up.
ChunkDone ==
    /\ pc = "chunk"
    /\ chunk_pos = Len(feed_keys)
    /\ pc' = IF Feed7 \in DOMAIN feed_message_map THEN "parse" ELSE "KeyError"
    /\ UNCHANGED << listing, messageinfo, unique_feeds, feeds_todo, feed_keys,
                    feed_message_map, chunk_pos, chunk_i, sublogs,
                    sublogs_timestamps, sublogs_parse_errors, merge_arg,
                    logbooks, parse_errors >>

\* fp.read() of a file: its content, one payload per path.
ReadFile(filename) == [content_of |-> filename]

\* One iteration of `for chunk in chunks`: read the files, gt.logify(messages).
ParseChunk ==
    /\ pc = "parse"
    /\ chunk_i < Len(feed_message_map[Feed7].val)
    /\ LET chunk == feed_message_map[Feed7].val[chunk_i + 1]
           messages == [i \in 1..Len(chunk) |-> ReadFile(chunk[i])]
       IN  /\ sublogs' = Append(sublogs, [logify |-> messages, part |-> "logbook"])
           /\ sublogs_timestamps' =
                 Append(sublogs_timestamps, [logify |-> messages, part |-> "timestamps"])
           /\ \E k \in 0..MaxErrors :
                 sublogs_parse_errors' =
                    Append(sublogs_parse_errors,
                           [e \in 1..k |-> [logify |-> messages, part |-> "parse_error", nth |-> e]])
    /\ chunk_i' = chunk_i + 1
    /\ UNCHANGED << pc, listing, messageinfo, unique_feeds, feeds_todo,
                    feed_keys, feed_message_map, chunk_pos, merge_arg,
                    logbooks, parse_errors >>

\* logbooks[feed], _ = gt.ops.merge_logbooks(list(zip(sublogs, sublogs_timestamps)))
\* parse_errors[feed] = list(itertools.chain(*sublogs_parse_errors))
MergeChunks ==
    /\ pc = "parse"
    /\ chunk_i = Len(feed_message_map[Feed7].val)
    /\ LET arg == [i \in 1..Min(Len(sublogs), Len(sublogs_timestamps)) |->
                      << sublogs[i], sublogs_timestamps[i] >>]
       IN  /\ merge_arg' = arg
           /\ logbooks' = [f \in {Feed7} |-> [merge_logbooks |-> arg]]
    /\ parse_errors' = [f \in {Feed7} |-> chain(sublogs_parse_errors)]
    /\ pc' = "cut"
    /\ UNCHANGED << listing, messageinfo, unique_feeds, feeds_todo, feed_keys,
                    feed_message_map, chunk_pos, chunk_i, sublogs,
                    sublogs_timestamps, sublogs_parse_errors >>

\* logbooks['7'] = gt.ops.cut_cancellations(logbooks['7'])
CutCancellations ==
    /\ pc = "cut"
    /\ logbooks' = [logbooks EXCEPT ![Feed7] = [cut_cancellations |-> logbooks[Feed7]]]
    /\ pc' = "save"
    /\ UNCHANGED << listing, messageinfo, unique_feeds, feeds_todo, feed_keys,
                    feed_message_map, chunk_pos, chunk_i, sublogs,
                    sublogs_timestamps, sublogs_parse_errors, merge_arg,
                    parse_errors >>

\* stops = pd.read_csv(...): the name pd is never imported.
ReadStops ==
    /\ pc = "save"
    /\ pc' = "NameError"
    /\ UNCHANGED << listing, messageinfo, unique_feeds, feeds_todo, feed_keys,
                    feed_message_map, chunk_pos, chunk_i, sublogs,
                    sublogs_timestamps, sublogs_parse_errors, merge_arg,
                    logbooks, parse_errors >>

Next ==
    \/ ListMessages
    \/ GroupFeed
    \/ GroupDone
    \/ ChunkFeed
    \/ ChunkDone
    \/ ParseChunk
    \/ MergeChunks
    \/ CutCancellations
    \/ ReadStops

Spec == Init /\ [][Next]_vars

(* ------------------------------ claims --------------------------------- *)

\* Number of archived messages of a feed in the directory.
MessageCount(feed) ==
    Cardinality({ i \in 0..(MaxMsgs7 + MaxMsgsAce) : FileName(feed, i) \in listing })

\* The paths of a feed's messages in chronological order.
Chronological(feed) ==
    [i \in 1..MessageCount(feed) |-> DataDir \o FileName(feed, i - 1)]

\* The paths of the messages a feed can have in the directory.
PathsOf(feed) ==
    { DataDir \o FileName(feed, i) : i \in 0..(MaxMsgs7 + MaxMsgsAce) }

\* The feeds that have a message in the directory.
FeedsListed == { feed \in {Feed7, FeedAce} : MessageCount(feed) > 0 }

\* The messages gt.logify is given for a chunk.
MessagesOf(chunk) == [i \in 1..Len(chunk) |-> ReadFile(chunk[i])]

\* C9: the driver's chunking is an order-preserving partition.  In every
\* state of the script, once the grouping loop is over feed_message_map has
\* one key per feed of the directory; the list grouped for a feed is the feed's
\* chronological message list; every list of chunks stored in
\* feed_message_map is a sequence of slices whose concatenation in list order
\* is that chronological list (nothing dropped, duplicated or reordered);
\* every chunk holds messages of its own feed only; and the (sublog,
\* timestamps) pairs handed to merge_logbooks are the logify results of the
\* chunks of the 7 feed, in chunk order.
C9_ChunkingIsOrderPreservingPartition ==
    /\ pc \notin {"list", "group"} => DOMAIN feed_message_map = FeedsListed
    /\ \A feed \in DOMAIN feed_message_map :
          /\ feed_message_map[feed].kind = "flat" =>
                feed_message_map[feed].val = Chronological(feed)
          /\ feed_message_map[feed].kind = "chunks" =>
                /\ chain(feed_message_map[feed].val) = Chronological(feed)
                /\ \A i \in 1..Len(feed_message_map[feed].val) :
                      \A j \in 1..Len(feed_message_map[feed].val[i]) :
                         feed_message_map[feed].val[i][j] \in PathsOf(feed)
    /\ pc \in {"cut", "save", "NameError"} =>
          /\ Len(merge_arg) = Len(feed_message_map[Feed7].val)
          /\ \A i \in 1..Len(merge_arg) :
                /\ merge_arg[i][1] =
                      [logify |-> MessagesOf(feed_message_map[Feed7].val[i]), part |-> "logbook"]
                /\ merge_arg[i][2] =
                      [logify |-> MessagesOf(feed_message_map[Feed7].val[i]), part |-> "timestamps"]

\* Both feeds are chunked, the 7 feed into four chunks of which the last is
\* longer than the first, and the pairs have been handed to merge_logbooks.
C9_Witness ==
    /\ pc = "cut"
    /\ FeedAce \in DOMAIN feed_message_map
    /\ feed_message_map[FeedAce].kind = "chunks"
    /\ Len(merge_arg) = 4
    /\ Len(feed_message_map[Feed7].val[4]) > Len(feed_message_map[Feed7].val[1])

\* C10: the chunking loop raises no error and leaves every feed it has
\* visited with exactly four chunks, each of them non-empty.
C10_FourNonEmptyChunks ==
    /\ pc # "ValueError"
    /\ \A feed \in DOMAIN feed_message_map :
          feed_message_map[feed].kind = "chunks" =>
             /\ Len(feed_message_map[feed].val) = n_segments
             /\ \A i \in 1..Len(feed_message_map[feed].val) :
                   feed_message_map[feed].val[i] # << >>

\* Every feed of at least four messages has ceil(n / (n div 4)) - 1 chunks:
\* three when n is a multiple of four.
StoredChunkCount ==
    \A feed \in DOMAIN feed_message_map :
        feed_message_map[feed].kind = "chunks" =>
           LET n == MessageCount(feed)
               step == n \div n_segments
           IN  Len(feed_message_map[feed].val) = ((n + step - 1) \div step) - 1

====
